---- MODULE Spec2Model ----
(***************************************************************************)
(* The local trust-state store of ockam: the named-identity registry       *)
(* (ockam_api/src/identity/identities_repository_sql.rs), the change-      *)
(* history and identity-attributes repositories (ockam_identity/src/       *)
(* identities/storage/*_sql.rs) and the directory lifecycle of CliState    *)
(* (ockam_api/src/cli_state/mod.rs).                                       *)
(*                                                                         *)
(* Every repository method runs each SQL statement on the connection pool  *)
(* (`query.execute(&self.database.pool)`), so every statement is its own   *)
(* autocommitted unit.  A method with several statements is modelled as    *)
(* one step per statement, taken by a caller p; other callers' statements  *)
(* may run between two steps.  Option<T> is a sequence of length 0 or 1.   *)
(***************************************************************************)
EXTENDS Integers, Sequences, FiniteSets, TLC

\* ---------------------------------------------------------------- bounds
MaxProcs == 2
MaxIds == 2
MaxNames == 2
MaxAttrNames == 2
MaxAttrValues == 1
MaxChanges == 2
MaxClock == 1

IdPool == <<"I1", "I2", "I3", "I4">>
NamePool == <<"n1", "n2", "n3", "n4">>
AttrNamePool == <<"k1", "k2", "k3", "k4">>
AttrValuePool == <<"v1", "v2", "v3", "v4">>

Procs == 1..MaxProcs
Identifiers == {IdPool[k] : k \in 1..MaxIds}
Names == {NamePool[k] : k \in 1..MaxNames}
AttrNames == {AttrNamePool[k] : k \in 1..MaxAttrNames}
AttrValues == {AttrValuePool[k] : k \in 1..MaxAttrValues}

None == << >>
Some(x) == << x >>

VARIABLES
    named_identity,       \* table named_identity: rows [identifier, name, is_default]
    identity,             \* table identity: rows [identifier, change_history]
    identity_attributes,  \* table identity_attributes: rows [identifier, attributes, added, expires, attested_by]
    call,                 \* call[p]: the repository call caller p is inside of
    last,                 \* the call that returned most recently
    clock,                \* utils::now(), in seconds
    fs,                   \* the filesystem: the set of paths that exist
    ockam_home,           \* the OCKAM_HOME environment variable, if set
    home_known,           \* home::home_dir() is Some
    states,               \* the CliState values that exist, by their `dir`
    bk,                   \* the backup_and_reset call in progress
    cli_last,             \* the lifecycle call that returned most recently
    facade                \* the Identities value get_identities handed out, if any

dbvars == <<named_identity, identity, identity_attributes, call, last, clock>>
clivars == <<fs, ockam_home, home_known, states, bk, cli_last>>
vars == <<named_identity, identity, identity_attributes, call, last, clock,
          fs, ockam_home, home_known, states, bk, cli_last, facade>>

\* ------------------------------------------------------- callers and calls
Idle ==
    [op |-> "none", pc |-> "idle", identifier |-> "", name |-> "", value |-> "", local |-> None]

NoCall ==
    [op |-> "none", status |-> "none", identifier |-> "", name |-> "", flag |-> FALSE,
     error |-> "", history |-> None]

Returned(op, status, identifier, name, flag) ==
    [op |-> op, status |-> status, identifier |-> identifier, name |-> name, flag |-> flag,
     error |-> "", history |-> None]

\* a query for the change history of `identifier` returns Err of kind `error`,
\* or Ok with the change history `history`, if any
ReturnedHistory(op, identifier, error, history) ==
    [Returned(op, IF error = "" THEN "ok" ELSE "error", identifier, "", FALSE)
        EXCEPT !.error = error, !.history = history]

InFlight == {p \in Procs : call[p].pc # "idle"}

\* ------------------------------------------------ named-identity registry
\* The column the INSERT of name_identity does not supply takes its default.
IsDefaultColumnDefault == FALSE

DefaultRows == {r \in named_identity : r.is_default}

\* the insert replaces the rows of the identifier, not the row of the name
InsertOrReplaceNamedByIdentifier(identifier, name) ==
    {r \in named_identity : r.identifier # identifier}
        \cup {[identifier |-> identifier, name |-> name, is_default |-> IsDefaultColumnDefault]}

\* INSERT OR REPLACE INTO named_identity values (?, ?): name is the primary key
InsertOrReplaceNamed(identifier, name) ==
    {r \in named_identity : r.name # name}
        \cup {[identifier |-> identifier, name |-> name, is_default |-> IsDefaultColumnDefault]}

\* UPDATE named_identity SET is_default = true WHERE identifier = ?
MarkIdentifierDefault(table, identifier) ==
    {IF r.identifier = identifier THEN [r EXCEPT !.is_default = TRUE] ELSE r : r \in table}

\* UPDATE named_identity SET is_default = false WHERE identifier <> ?
UnmarkOtherIdentifiers(table, identifier) ==
    {IF r.identifier # identifier THEN [r EXCEPT !.is_default = FALSE] ELSE r : r \in table}

\* UPDATE named_identity SET is_default = true WHERE name = ?
MarkNameDefault(table, name) ==
    {IF r.name = name THEN [r EXCEPT !.is_default = TRUE] ELSE r : r \in table}

\* fetch_optional: the first row the statement yields; SQL fixes no order
FetchOptional(rows) ==
    IF rows = {} THEN {None} ELSE {Some(r) : r \in rows}

\* The results a query can return in the current state.
GetIdentifierByName(name) ==
    {IF o = None THEN None ELSE Some(o[1].identifier) :
        o \in FetchOptional({r \in named_identity : r.name = name})}

GetDefaultIdentifier ==
    {IF o = None THEN None ELSE Some(o[1].identifier) : o \in FetchOptional(DefaultRows)}

GetDefaultNamedIdentity == FetchOptional(DefaultRows)

GetDefaultIdentityName ==
    {IF o = None THEN None ELSE Some(o[1].name) : o \in FetchOptional(DefaultRows)}

\* the fields #[derive(sqlx::FromRow)] reads for a NamedIdentityRow
NamedIdentityRowColumns == {"identifier", "name", "is_default"}

\* FromRow::from_row on a row of the selected columns: a field whose column
\* the statement did not select is an error
FromRow(columns, row) ==
    IF NamedIdentityRowColumns \subseteq columns
    THEN [variant |-> "Ok", row |-> row]
    ELSE [variant |-> "ColumnNotFound", row |-> None]

\* is_default_identity_by_name: SELECT is_default FROM named_identity WHERE
\* name=$1, fetched as a NamedIdentityRow; the results it can return
IsDefaultIdentityByName(name) ==
    {IF o = None THEN [variant |-> "Ok", flag |-> FALSE]
     ELSE LET decoded == FromRow({"is_default"}, o[1])
          IN  IF decoded.variant = "Ok"
              THEN [variant |-> "Ok", flag |-> decoded.row.is_default]
              ELSE [variant |-> "Err", flag |-> FALSE] :
        o \in FetchOptional({r \in named_identity : r.name = name})}

\* a parameter of a statement that no bind() fills is NULL
Null == "NULL"

\* the SQL comparison a = b: never true of NULL
SqlEquals(a, b) == a # Null /\ b # Null /\ a = b

\* get_named_identities: SELECT * FROM named_identity WHERE name=$1, and
\* nothing bound to $1
GetNamedIdentities == {r \in named_identity : SqlEquals(r.name, Null)}

NameIdentity(p, identifier, name) ==
    /\ call[p].pc = "idle"
    /\ named_identity' = InsertOrReplaceNamed(identifier, name)
    /\ last' = Returned("name_identity", "ok", identifier, name, FALSE)
    /\ UNCHANGED <<identity, identity_attributes, call, clock>>
    /\ UNCHANGED <<clivars, facade>>

\* pool.acquire() and query1; `local` keeps the number of default rows the
\* call started from
SetAsDefaultQuery1(p, identifier) ==
    /\ call[p].pc = "idle"
    /\ named_identity' = MarkIdentifierDefault(named_identity, identifier)
    /\ call' = [call EXCEPT ![p] = [Idle EXCEPT !.op = "set_as_default", !.pc = "query2",
                                     !.identifier = identifier,
                                     !.local = Some(Cardinality(DefaultRows))]]
    /\ UNCHANGED <<identity, identity_attributes, last, clock>>
    /\ UNCHANGED <<clivars, facade>>

\* query2 and transaction.close()
SetAsDefaultQuery2(p) ==
    /\ call[p].op = "set_as_default"
    /\ call[p].pc = "query2"
    /\ named_identity' = UnmarkOtherIdentifiers(named_identity, call[p].identifier)
    /\ call' = [call EXCEPT ![p] = Idle]
    /\ last' = Returned("set_as_default", "ok", call[p].identifier, "", FALSE)
    /\ UNCHANGED <<identity, identity_attributes, clock>>
    /\ UNCHANGED <<clivars, facade>>

\* query2 fails: `?` returns the error; `flag` tells the call started from at
\* most one default row
SetAsDefaultQuery2Fails(p) ==
    /\ call[p].op = "set_as_default"
    /\ call[p].pc = "query2"
    /\ call' = [call EXCEPT ![p] = Idle]
    /\ last' = Returned("set_as_default", "error", call[p].identifier, "",
                        call[p].local[1] <= 1)
    /\ UNCHANGED <<named_identity, identity, identity_attributes, clock>>
    /\ UNCHANGED <<clivars, facade>>

SetAsDefaultByName(p, name) ==
    /\ call[p].pc = "idle"
    /\ named_identity' = MarkNameDefault(named_identity, name)
    /\ last' = Returned("set_as_default_by_name", "ok", "", name, FALSE)
    /\ UNCHANGED <<identity, identity_attributes, call, clock>>
    /\ UNCHANGED <<clivars, facade>>

\* get_identifier_by_name, then the DELETE; `flag` tells a row was found
DeleteIdentityByName(p, name) ==
    /\ call[p].pc = "idle"
    /\ \E found \in GetIdentifierByName(name) :
        last' = Returned("delete_identity_by_name", "ok",
                         IF found = None THEN "" ELSE found[1], name, found # None)
    /\ named_identity' = {r \in named_identity : r.name # name}
    /\ UNCHANGED <<identity, identity_attributes, call, clock>>
    /\ UNCHANGED <<clivars, facade>>

\* -------------------------------------------------- change-history repository
\* The change history of identifier i after n-1 key rotations: its first
\* change determines the identifier.
ChangeHistoryOf(i, n) == [k \in 1..n |-> <<i, k>>]

Identities ==
    {[identifier |-> i, change_history |-> ChangeHistoryOf(i, n)] :
        i \in Identifiers, n \in 1..MaxChanges}

\* ChangeHistory::export: the CBOR array of the changes (length header, items)
Export(change_history) == <<Len(change_history)>> \o change_history

\* ChangeHistory::import: fails on bytes that are no CBOR array of changes
Import(bytes) ==
    IF Len(bytes) >= 1 /\ bytes[1] = Len(bytes) - 1 THEN Some(Tail(bytes)) ELSE None

IdentityRowsOf(identifier) == {r \in identity : r.identifier = identifier}

\* DELETE FROM identity where identifier=?
DeleteIdentityRows(table, identifier) == {r \in table : r.identifier # identifier}

\* the cascade left out: the attributes rows stay
DeleteAttributesRowsSkipped(table, identifier) == table

\* the DELETE without its WHERE clause
DeleteAllAttributesRows(table, identifier) == {}

\* DELETE FROM identity_attributes where identifier=?
DeleteAttributesRows(table, identifier) == {r \in table : r.identifier # identifier}

\* the SELECT without its WHERE clause: the first row of the table, whosever
GetChangeHistoryOfAnyRow(identifier) ==
    {IF o = None THEN None ELSE Import(o[1].change_history) : o \in FetchOptional(identity)}

\* SELECT * FROM identity WHERE identifier=$1, then ChangeHistoryRow::change_history
GetChangeHistoryOptional(identifier) ==
    {IF o = None THEN None ELSE Import(o[1].change_history) :
        o \in FetchOptional(IdentityRowsOf(identifier))}

\* the primary key of table identity
IdentityKey(row) == row.identifier

\* the statement written as an upsert: the row of the identifier is replaced
InsertOrReplaceIdentity(table, row) ==
    Some({r \in table : IdentityKey(r) # IdentityKey(row)} \cup {row})

\* INSERT INTO identity VALUES (?, ?): the table with the row added, or none
\* when the statement fails because the key has a row
InsertIdentity(table, row) ==
    IF \E r \in table : IdentityKey(r) = IdentityKey(row)
    THEN None
    ELSE Some(table \cup {row})

StoreIdentity(p, idn) ==
    /\ call[p].pc = "idle"
    /\ LET inserted == InsertIdentity(identity,
                            [identifier |-> idn.identifier,
                             change_history |-> Export(idn.change_history)])
       IN  IF inserted # None
           THEN /\ identity' = inserted[1]
                /\ last' = Returned("store_identity", "ok", idn.identifier, "", FALSE)
           ELSE /\ identity' = identity
                /\ last' = Returned("store_identity", "error", idn.identifier, "", FALSE)
    /\ UNCHANGED <<named_identity, identity_attributes, call, clock>>
    /\ UNCHANGED <<clivars, facade>>

\* the statement written as an upsert: an identifier without a row gets one
UpdateOrInsertChangeHistory(table, identifier, bytes) ==
    {r \in table : r.identifier # identifier}
        \cup {[identifier |-> identifier, change_history |-> bytes]}

\* UPDATE identity SET change_history = ? WHERE identifier = ?
UpdateChangeHistory(table, identifier, bytes) ==
    {IF r.identifier = identifier THEN [r EXCEPT !.change_history = bytes] ELSE r :
        r \in table}

UpdateIdentity(p, idn) ==
    /\ call[p].pc = "idle"
    /\ identity' = UpdateChangeHistory(identity, idn.identifier, Export(idn.change_history))
    /\ last' = Returned("update_identity", "ok", idn.identifier, "", FALSE)
    /\ UNCHANGED <<named_identity, identity_attributes, call, clock>>
    /\ UNCHANGED <<clivars, facade>>

\* ChangeHistoryRepository::get_change_history_optional returns Ok(got)
GetChangeHistoryOptionalCall(p, identifier) ==
    /\ call[p].pc = "idle"
    /\ \E got \in GetChangeHistoryOptional(identifier) :
        last' = ReturnedHistory("get_change_history_optional", identifier, "", got)
    /\ UNCHANGED <<named_identity, identity, identity_attributes, call, clock>>
    /\ UNCHANGED <<clivars, facade>>

\* the absence is passed on as it is: Ok with no change history
OrNone(optional) == <<"", optional>>

\* ChangeHistoryRepository::get_change_history, from what
\* get_change_history_optional returned: <<error, change history>>
OrResourceNotFound(optional) ==
    IF optional = None THEN <<"ResourceNotFound", None>> ELSE <<"", optional>>

GetChangeHistoryCall(p, identifier) ==
    /\ call[p].pc = "idle"
    /\ \E got \in GetChangeHistoryOptional(identifier) :
        last' = ReturnedHistory("get_change_history", identifier,
                                OrResourceNotFound(got)[1], OrResourceNotFound(got)[2])
    /\ UNCHANGED <<named_identity, identity, identity_attributes, call, clock>>
    /\ UNCHANGED <<clivars, facade>>

\* ----------------------------------------------- identity-attributes repository
AttributesEntry(attrs, added, expires, attested_by) ==
    [attrs |-> attrs, added |-> added, expires |-> expires, attested_by |-> attested_by]

EmptyMap == [k \in {} |-> ""]

\* the map is started afresh: the pair alone
MapOnly(m, k, v) == [x \in {k} |-> v]

\* BTreeMap::insert
MapInsert(m, k, v) == [x \in DOMAIN m \cup {k} |-> IF x = k THEN v ELSE m[x]]

\* minicbor::to_vec of the BTreeMap: its pairs in key order
CborEncode(m) ==
    LET all == [j \in 1..Len(AttrNamePool) |->
                    <<AttrNamePool[j],
                      IF AttrNamePool[j] \in DOMAIN m THEN m[AttrNamePool[j]] ELSE "">>]
        Present(e) == e[1] \in DOMAIN m
    IN  SelectSeq(all, Present)

\* minicbor::decode
CborDecode(bytes) ==
    [k \in {bytes[j][1] : j \in 1..Len(bytes)} |->
        bytes[CHOOSE j \in 1..Len(bytes) : bytes[j][1] = k][2]]

AttributesRowsOf(identifier) == {r \in identity_attributes : r.identifier = identifier}

\* IdentityAttributesRow::attributes
RowAttributes(r) == AttributesEntry(CborDecode(r.attributes), r.added, r.expires, r.attested_by)

\* SELECT * FROM identity_attributes WHERE identifier=$1
GetAttributes(identifier) ==
    {IF o = None THEN None ELSE Some(RowAttributes(o[1])) :
        o \in FetchOptional(AttributesRowsOf(identifier))}

\* SELECT * FROM identity_attributes
List == {<<r.identifier, RowAttributes(r)>> : r \in identity_attributes}

\* the primary key of table identity_attributes
AttributesKey(row) == row.identifier

\* the row an entry is stored as
AttributesRow(sender, entry) ==
    [identifier |-> sender, attributes |-> CborEncode(entry.attrs),
     added |-> entry.added, expires |-> entry.expires, attested_by |-> entry.attested_by]

\* the statement written as INSERT OR IGNORE: a subject that has a row keeps it
InsertOrIgnoreAttributes(table, sender, entry) ==
    IF \E r \in table : AttributesKey(r) = sender THEN table
    ELSE table \cup {AttributesRow(sender, entry)}

\* an entry without attributes is taken for no entry
InsertOrReplaceNonEmptyAttributes(table, sender, entry) ==
    {r \in table : AttributesKey(r) # sender}
        \cup (IF entry.attrs = EmptyMap THEN {} ELSE {AttributesRow(sender, entry)})

\* INSERT OR REPLACE INTO identity_attributes VALUES (?, ?, ?, ?, ?)
InsertOrReplaceAttributes(table, sender, entry) ==
    {r \in table : AttributesKey(r) # sender} \cup {AttributesRow(sender, entry)}

PutAttributes(p, sender, entry) ==
    /\ call[p].pc = "idle"
    /\ identity_attributes' = InsertOrReplaceAttributes(identity_attributes, sender, entry)
    /\ last' = Returned("put_attributes", "ok", sender, "", FALSE)
    /\ UNCHANGED <<named_identity, identity, call, clock>>
    /\ UNCHANGED <<clivars, facade>>

\* pool.begin(), get_attributes, and the code up to the call of put_attributes:
\* `local` is the entry the call is about to store
PutAttributeValueRead(p, subject, attribute_name, attribute_value) ==
    /\ call[p].pc = "idle"
    /\ \E got \in GetAttributes(subject) :
        LET attributes == IF got = None THEN EmptyMap ELSE got[1].attrs
            entry == AttributesEntry(MapInsert(attributes, attribute_name, attribute_value),
                                     clock, None, Some(subject))
        IN  call' = [call EXCEPT ![p] =
                        [Idle EXCEPT !.op = "put_attribute_value", !.pc = "put",
                                     !.identifier = subject, !.name = attribute_name,
                                     !.value = attribute_value, !.local = Some(entry)]]
    /\ UNCHANGED <<named_identity, identity, identity_attributes, last, clock>>
    /\ UNCHANGED <<clivars, facade>>

\* put_attributes and transaction.commit()
PutAttributeValueWrite(p) ==
    /\ call[p].op = "put_attribute_value"
    /\ call[p].pc = "put"
    /\ identity_attributes' =
            InsertOrReplaceAttributes(identity_attributes, call[p].identifier, call[p].local[1])
    /\ call' = [call EXCEPT ![p] = Idle]
    /\ last' = Returned("put_attribute_value", "ok", call[p].identifier, call[p].name, FALSE)
    /\ UNCHANGED <<named_identity, identity, clock>>
    /\ UNCHANGED <<clivars, facade>>

\* put_attributes fails: `?` returns the error
PutAttributeValueFails(p) ==
    /\ call[p].op = "put_attribute_value"
    /\ call[p].pc = "put"
    /\ call' = [call EXCEPT ![p] = Idle]
    /\ last' = Returned("put_attribute_value", "error", call[p].identifier, call[p].name,
                        FALSE)
    /\ UNCHANGED <<named_identity, identity, identity_attributes, clock>>
    /\ UNCHANGED <<clivars, facade>>

\* DELETE FROM identity_attributes WHERE identifier = ?
DeleteAttributes(p, identifier) ==
    /\ call[p].pc = "idle"
    /\ identity_attributes' = DeleteAttributesRows(identity_attributes, identifier)
    /\ last' = Returned("delete", "ok", identifier, "", FALSE)
    /\ UNCHANGED <<named_identity, identity, call, clock>>
    /\ UNCHANGED <<clivars, facade>>

\* ChangeHistorySqlxDatabase::delete_identity: pool.acquire() and query1;
\* `local` tells whether the call found both a change history and attributes
DeleteIdentityQuery1(p, identifier) ==
    /\ call[p].pc = "idle"
    /\ identity' = DeleteIdentityRows(identity, identifier)
    /\ call' = [call EXCEPT ![p] =
                    [Idle EXCEPT !.op = "delete_identity", !.pc = "query2",
                                 !.identifier = identifier,
                                 !.local = Some(/\ IdentityRowsOf(identifier) # {}
                                                /\ AttributesRowsOf(identifier) # {})]]
    /\ UNCHANGED <<named_identity, identity_attributes, last, clock>>
    /\ UNCHANGED <<clivars, facade>>

\* query2 and transaction.close()
DeleteIdentityQuery2(p) ==
    /\ call[p].op = "delete_identity"
    /\ call[p].pc = "query2"
    /\ identity_attributes' = DeleteAttributesRows(identity_attributes, call[p].identifier)
    /\ call' = [call EXCEPT ![p] = Idle]
    /\ last' = Returned("delete_identity", "ok", call[p].identifier, "", call[p].local[1])
    /\ UNCHANGED <<named_identity, identity, clock>>
    /\ UNCHANGED <<clivars, facade>>

\* query2 fails: `?` returns the error
DeleteIdentityQuery2Fails(p) ==
    /\ call[p].op = "delete_identity"
    /\ call[p].pc = "query2"
    /\ call' = [call EXCEPT ![p] = Idle]
    /\ last' = Returned("delete_identity", "error", call[p].identifier, "",
                        call[p].local[1])
    /\ UNCHANGED <<named_identity, identity, identity_attributes, clock>>
    /\ UNCHANGED <<clivars, facade>>

\* ------------------------------------------------------ the connection pool
\* the connections of the pool: as many as there are callers
PoolSize == MaxProcs

\* the calls that take a connection and keep it until close() or commit()
PooledOps == {"set_as_default", "delete_identity", "put_attribute_value"}

\* caller p keeps the connection that pool.acquire() or pool.begin() gave it
HoldsConnection(p) == call[p].pc \in {"statement1", "statement2", "close"}

\* a statement executed on `&self.database.pool` takes a connection of its own
\* for as long as it runs
FreeConnections == PoolSize - Cardinality({p \in Procs : HoldsConnection(p)})

\* the call is made and asks for its connection: pool.acquire() in
\* set_as_default and delete_identity, pool.begin() in put_attribute_value
PoolBegin(p, op, identifier) ==
    /\ call[p].pc = "idle"
    /\ call' = [call EXCEPT ![p] = [Idle EXCEPT !.op = op, !.pc = "acquire",
                                                !.identifier = identifier,
                                                !.name = AttrNamePool[1],
                                                !.value = AttrValuePool[1]]]
    /\ UNCHANGED <<named_identity, identity, identity_attributes, last, clock>>
    /\ UNCHANGED <<clivars, facade>>

\* the pool grants the connection
PoolGrant(p) ==
    /\ call[p].pc = "acquire"
    /\ FreeConnections > 0
    /\ call' = [call EXCEPT ![p].pc = "statement1"]
    /\ UNCHANGED <<named_identity, identity, identity_attributes, last, clock>>
    /\ UNCHANGED <<clivars, facade>>

\* the next statement of the call runs on a second connection, which the pool
\* grants and takes back: query1 then query2 of set_as_default and of
\* delete_identity, get_attributes then put_attributes of put_attribute_value
PoolStatement(p) ==
    /\ call[p].pc \in {"statement1", "statement2"}
    /\ FreeConnections > 0
    /\ LET c == call[p]
           first == c.pc = "statement1"
       IN  /\ named_identity' =
                IF c.op # "set_as_default" THEN named_identity
                ELSE IF first THEN MarkIdentifierDefault(named_identity, c.identifier)
                ELSE UnmarkOtherIdentifiers(named_identity, c.identifier)
           /\ identity' =
                IF c.op = "delete_identity" /\ first
                THEN DeleteIdentityRows(identity, c.identifier) ELSE identity
           /\ identity_attributes' =
                IF c.op = "delete_identity" /\ ~first
                THEN DeleteAttributesRows(identity_attributes, c.identifier)
                ELSE IF c.op = "put_attribute_value" /\ ~first
                THEN InsertOrReplaceAttributes(identity_attributes, c.identifier, c.local[1])
                ELSE identity_attributes
           /\ IF c.op = "put_attribute_value" /\ first
              THEN \E got \in GetAttributes(c.identifier) :
                    LET attributes == IF got = None THEN EmptyMap ELSE got[1].attrs
                        entry == AttributesEntry(MapInsert(attributes, c.name, c.value),
                                                 clock, None, Some(c.identifier))
                    IN  call' = [call EXCEPT ![p].pc = "statement2", ![p].local = Some(entry)]
              ELSE call' = [call EXCEPT ![p].pc = IF first THEN "statement2" ELSE "close"]
    /\ UNCHANGED <<last, clock>>
    /\ UNCHANGED <<clivars, facade>>

\* transaction.close() or transaction.commit(): the connection goes back to
\* the pool and the call returns
PoolClose(p) ==
    /\ call[p].pc = "close"
    /\ call' = [call EXCEPT ![p] = Idle]
    /\ last' = Returned(call[p].op, "ok", call[p].identifier, "", FALSE)
    /\ UNCHANGED <<named_identity, identity, identity_attributes, clock>>
    /\ UNCHANGED <<clivars, facade>>

\* the pool has no connection to grant and the wait ends with an error: `?`
\* returns it and drops the connection the call keeps, if any
PoolTimesOut(p) ==
    /\ call[p].pc \in {"acquire", "statement1", "statement2"}
    /\ FreeConnections = 0
    /\ call' = [call EXCEPT ![p] = Idle]
    /\ last' = [Returned(call[p].op, "error", call[p].identifier, "", FALSE)
                    EXCEPT !.error = "PoolTimedOut"]
    /\ UNCHANGED <<named_identity, identity, identity_attributes, clock>>
    /\ UNCHANGED <<clivars, facade>>

\* A second passes.
Tick ==
    /\ clock < MaxClock
    /\ clock' = clock + 1
    /\ UNCHANGED <<named_identity, identity, identity_attributes, call, last>>
    /\ UNCHANGED <<clivars, facade>>

\* ------------------------------------------------------------ the filesystem
\* A path is the sequence of its components; fs is the set of paths that exist.
IsPrefix(p, q) == Len(p) <= Len(q) /\ SubSeq(q, 1, Len(p)) = p

\* std::fs::create_dir_all
CreateDirAll(f, p) == f \cup {SubSeq(p, 1, k) : k \in 1..Len(p)}

\* std::fs::remove_dir_all
RemoveDirAll(f, p) == {q \in f : ~IsPrefix(p, q)}

\* std::fs::read_dir: the entries of directory p
ReadDir(f, p) == {q \in f : Len(q) = Len(p) + 1 /\ IsPrefix(p, q)}

\* std::fs::rename of an entry and all that is below it
Rename(f, from, to) ==
    {q \in f : ~IsPrefix(from, q)}
        \cup {to \o SubSeq(q, Len(from) + 1, Len(q)) : q \in {x \in f : IsPrefix(from, x)}}

\* everything at and below p
Tree(f, p) == {q \in f : IsPrefix(p, q)}

\* ----------------------------------------------------------------- CliState
MaxEntities == 1
MaxItems == 1

ItemPool == <<"e1", "e2", "e3">>
Items == {ItemPool[k] : k \in 1..MaxItems}

\* "home" is the home-relative default $HOME/.ockam, "alt" any other directory
RootDirs == {"home", "alt"}

\* format!("{dir_name}.bak")
BackupName(d) == IF d = "home" THEN "home.bak" ELSE "alt.bak"

\* the directories of the file-backed categories, as delete_at lists them
StateDirs == <<"vaults", "spaces", "projects", "credentials", "trust_contexts", "users_info">>

DatabaseFile == "database.sqlite3"

\* the tables of the database-backed categories
DbTables == {"named_identity", "identity", "node"}

\* the directories the loop of delete_at removes, in order
DeleteTargetDirs == StateDirs \o <<"defaults">>

\* the names a root directory can hold, in the order read_dir is taken to
\* yield them
RootEntries == DeleteTargetDirs \o <<"config.json", DatabaseFile, "nodes">>

\* the iterator std::fs::read_dir(&dir) gives the loop of backup_and_reset
ReadDirSeq(f, d) ==
    LET Exists(e) == e \in ReadDir(f, <<d>>)
    IN  SelectSeq([k \in 1..Len(RootEntries) |-> <<d, RootEntries[k]>>], Exists)

\* the named entities below root d: files of the file-backed categories, rows
\* of the store file, node directories
Entities(f, d) == {q \in f : Len(q) = 3 /\ q[1] = d /\ q[2] # "defaults"}

\* the entry of defaults/ that marks the default of the category stored in
\* directory c
DefaultName(c) ==
    CASE c = "vaults" -> "vault"
      [] c = "spaces" -> "space"
      [] c = "projects" -> "project"
      [] c = "credentials" -> "credential"
      [] c = "trust_contexts" -> "trust_context"
      [] c = "users_info" -> "user_info"

DefaultMarker(d, c) == <<d, "defaults", DefaultName(c)>>

\* the marker links to the file of the default item
SetDefaultItem(f, d, c, item) ==
    {q \in f : ~IsPrefix(DefaultMarker(d, c), q)}
        \cup {DefaultMarker(d, c), DefaultMarker(d, c) \o <<item>>}

\* the names the marker of category c links to: one, or none
DefaultItems(f, d, c) ==
    {item \in {q[4] : q \in {x \in f : Len(x) = 4 /\ IsPrefix(DefaultMarker(d, c), x)}} :
        <<d, c, item>> \in f}

\* every item created becomes the default
CreateItemAsDefault(f, d, c, item) == SetDefaultItem(f \cup {<<d, c, item>>}, d, c, item)

\* create(name, config) of a file-backed category: the file of the item, which
\* becomes the default when the category has none
CreateItem(f, d, c, item) ==
    LET f1 == f \cup {<<d, c, item>>}
    IN  IF DefaultItems(f, d, c) = {} THEN SetDefaultItem(f1, d, c, item) ELSE f1

NoBackup == [pc |-> "idle", dir |-> "", todo |-> << >>, prior |-> {}]

\* the values a call returns: Ok(name) or one of the CliStateError variants
Ok(x) == [variant |-> "Ok", resource |-> "", name |-> x]

ResourceNotFound(resource, name) ==
    [variant |-> "ResourceNotFound", resource |-> resource, name |-> name]

AlreadyExists(resource, name) ==
    [variant |-> "AlreadyExists", resource |-> resource, name |-> name]

\* impl From<&str> for CliStateError
InvalidOperation(message) ==
    [variant |-> "InvalidOperation", resource |-> "", name |-> message]

\* CliStateError::Ockam(e), what `.into()` makes of an ockam_core::Error of
\* the given Kind
Ockam(kind, message) == [variant |-> "Ockam", resource |-> kind, name |-> message]

NoValue == [variant |-> "", resource |-> "", name |-> ""]

CliReturned(op, status, root, dir, prior) ==
    [op |-> op, status |-> status, root |-> root, dir |-> dir, prior |-> prior,
     arg |-> "", value |-> NoValue]

\* a call with argument `arg` ("" when it has none) on the CliState whose dir
\* is d returns `value`
CliValue(op, d, arg, value) ==
    [CliReturned(op, IF value.variant = "Ok" THEN "ok" ELSE "error", d, d, {})
        EXCEPT !.arg = arg, !.value = value]

\* CliState::default_dir: the home-relative default is computed, `?` included,
\* before get_env_with_default looks at OCKAM_HOME
DefaultDir ==
    IF ~home_known THEN None
    ELSE IF ockam_home # None THEN ockam_home ELSE Some("home")

\* CliState::backup_default_dir
BackupDefaultDir ==
    IF DefaultDir = None THEN None ELSE Some(BackupName(DefaultDir[1]))

RECURSIVE InitStateDirs(_, _, _)
\* VaultsState::init(dir) ... UsersInfoState::init(dir): each creates its directory
InitStateDirs(f, d, k) ==
    IF k > Len(StateDirs) THEN f
    ELSE InitStateDirs(CreateDirAll(f, <<d, StateDirs[k]>>), d, k + 1)

RECURSIVE RemoveStateDirsUntilFailure(_, _, _, _)
\* the loop stops at the first removal that fails
RemoveStateDirsUntilFailure(f, d, failed, k) ==
    IF k > Len(DeleteTargetDirs) \/ DeleteTargetDirs[k] \in failed THEN f
    ELSE RemoveStateDirsUntilFailure(RemoveDirAll(f, <<d, DeleteTargetDirs[k]>>),
                                     d, failed, k + 1)

RECURSIVE RemoveStateDirs(_, _, _, _)
\* the loop of delete_at: `let _ = std::fs::remove_dir_all(dir)`, a removal in
\* `failed` fails and is ignored
RemoveStateDirs(f, d, failed, k) ==
    IF k > Len(DeleteTargetDirs) THEN f
    ELSE RemoveStateDirs(IF DeleteTargetDirs[k] \in failed THEN f
                         ELSE RemoveDirAll(f, <<d, DeleteTargetDirs[k]>>),
                         d, failed, k + 1)

\* CliState::delete_at
DeleteAt(f, d, failed) ==
    LET f1 == RemoveStateDirs(f, d, failed, 1)
        f2 == IF "config.json" \in failed THEN f1 ELSE f1 \ {<<d, "config.json">>}
        is_empty == <<d>> \in f2 /\ ReadDir(f2, <<d>>) = {}
    IN  IF is_empty /\ "." \notin failed THEN f2 \ {<<d>>} ELSE f2

\* CliState::initialize_cli_state, at directory d
InitializeCliState(f, d) == InitStateDirs(f, d, 1)

\* CliState::initialize
Initialize ==
    /\ bk.pc = "idle"
    /\ IF DefaultDir = None
       THEN /\ cli_last' = CliReturned("initialize", "error", "", "", {})
            /\ UNCHANGED <<fs, states>>
       ELSE LET d == DefaultDir[1]
            IN  /\ fs' = InitializeCliState(CreateDirAll(fs, <<d, "defaults">>), d)
                /\ states' = states \cup {d}
                /\ cli_last' = CliReturned("initialize", "ok", "", d, {})
    /\ UNCHANGED <<ockam_home, home_known, bk>>
    /\ UNCHANGED <<dbvars, facade>>

\* CliState::new(dir), the constructor behind CliState::test()
New(d) ==
    /\ bk.pc = "idle"
    /\ fs' = InitializeCliState(CreateDirAll(fs, <<d, "defaults">>), d)
    /\ states' = states \cup {d}
    /\ cli_last' = CliReturned("new", "ok", "", d, {})
    /\ UNCHANGED <<ockam_home, home_known, bk>>
    /\ UNCHANGED <<dbvars, facade>>

\* a record of a file-backed category is created: one file in its directory
CreateEntity(d, c, item) ==
    /\ bk.pc = "idle"
    /\ d \in states
    /\ <<d, c>> \in fs
    /\ <<d, "defaults">> \in fs
    /\ <<d, c, item>> \notin fs
    /\ fs' = CreateItem(fs, d, c, item)
    /\ cli_last' = CliReturned("create", "ok", d, d, {})
    /\ UNCHANGED <<ockam_home, home_known, states, bk>>
    /\ UNCHANGED <<dbvars, facade>>

\* CliState::database, then a repository stores a row of `table`
StoreRow(d, table) ==
    /\ bk.pc = "idle"
    /\ d \in states
    /\ <<d>> \in fs
    /\ fs' = fs \cup {<<d, DatabaseFile>>, <<d, DatabaseFile, table>>}
    /\ cli_last' = CliReturned("database", "ok", d, d, {})
    /\ UNCHANGED <<ockam_home, home_known, states, bk>>
    /\ UNCHANGED <<dbvars, facade>>

\* CliState::node_dir
NodeDir(d, node_name) ==
    /\ bk.pc = "idle"
    /\ d \in states
    /\ fs' = CreateDirAll(fs, <<d, "nodes", node_name>>)
    /\ cli_last' = CliReturned("node_dir", "ok", d, d, {})
    /\ UNCHANGED <<ockam_home, home_known, states, bk>>
    /\ UNCHANGED <<dbvars, facade>>

\* the root-level config file is written
WriteConfig(d) ==
    /\ bk.pc = "idle"
    /\ d \in states
    /\ <<d>> \in fs
    /\ fs' = fs \cup {<<d, "config.json">>}
    /\ cli_last' = CliReturned("write_config", "ok", d, d, {})
    /\ UNCHANGED <<ockam_home, home_known, states, bk>>
    /\ UNCHANGED <<dbvars, facade>>

\* CliState::reset on the CliState whose dir is d
Reset(d, failed) ==
    /\ bk.pc = "idle"
    /\ d \in states
    /\ LET f1 == DeleteAt(fs, d, failed)
       IN  IF DefaultDir = None
           THEN /\ fs' = f1
                /\ states' = states
                /\ cli_last' = CliReturned("reset", "error", d, "", Entities(fs, d))
           ELSE /\ fs' = InitializeCliState(f1, DefaultDir[1])
                /\ states' = states \cup {DefaultDir[1]}
                /\ cli_last' = CliReturned("reset", "ok", d, DefaultDir[1], Entities(fs, d))
    /\ UNCHANGED <<ockam_home, home_known, bk>>
    /\ UNCHANGED <<dbvars, facade>>

\* CliState::delete
Delete(failed) ==
    /\ bk.pc = "idle"
    /\ IF DefaultDir = None
       THEN /\ fs' = fs
            /\ cli_last' = CliReturned("delete", "error", "", "", {})
       ELSE /\ fs' = DeleteAt(fs, DefaultDir[1], failed)
            /\ cli_last' = CliReturned("delete", "ok", DefaultDir[1], "",
                                       Entities(fs, DefaultDir[1]))
    /\ UNCHANGED <<ockam_home, home_known, states, bk>>
    /\ UNCHANGED <<dbvars, facade>>

\* CliState::backup_and_reset up to the loop: the backup directory is reset
\* (a failing remove_dir_all is ignored) and the root is listed
BackupPrepare(remove_fails, create_fails) ==
    /\ bk.pc = "idle"
    /\ IF DefaultDir = None
       THEN /\ fs' = fs
            /\ bk' = bk
            /\ cli_last' = CliReturned("backup_and_reset", "error", "", "", {})
       ELSE LET d == DefaultDir[1]
                backup_dir == <<BackupDefaultDir[1]>>
                f1 == IF backup_dir \in fs /\ ~remove_fails
                      THEN RemoveDirAll(fs, backup_dir) ELSE fs
                f2 == CreateDirAll(f1, backup_dir)
            IN  IF create_fails
                THEN /\ fs' = f1
                     /\ bk' = bk
                     /\ cli_last' = CliReturned("backup_and_reset", "error", d, "",
                                                Tree(fs, <<d>>))
                ELSE IF <<d>> \notin f2
                THEN /\ fs' = f2
                     /\ bk' = bk
                     /\ cli_last' = CliReturned("backup_and_reset", "error", d, "",
                                                Tree(fs, <<d>>))
                ELSE /\ fs' = f2
                     /\ bk' = [pc |-> "moving", dir |-> d, todo |-> ReadDirSeq(f2, d),
                               prior |-> Tree(fs, <<d>>)]
                     /\ cli_last' = cli_last
    /\ UNCHANGED <<ockam_home, home_known, states>>
    /\ UNCHANGED <<dbvars, facade>>

\* one turn of the loop: std::fs::rename(from, to) of the next entry; a
\* directory cannot replace a non-empty one
BackupMove ==
    /\ bk.pc = "moving"
    /\ bk.todo # << >>
    /\ LET from == Head(bk.todo)
           to == <<BackupName(bk.dir), from[2]>>
       IN  /\ ReadDir(fs, to) = {}
           /\ fs' = Rename(fs, from, to)
    /\ bk' = [bk EXCEPT !.todo = Tail(bk.todo)]
    /\ UNCHANGED <<ockam_home, home_known, states, cli_last>>
    /\ UNCHANGED <<dbvars, facade>>

\* the rename of the next entry fails: `?` returns the error
BackupMoveFails ==
    /\ bk.pc = "moving"
    /\ bk.todo # << >>
    /\ bk' = NoBackup
    /\ cli_last' = CliReturned("backup_and_reset", "error", bk.dir, "", bk.prior)
    /\ UNCHANGED <<fs, ockam_home, home_known, states>>
    /\ UNCHANGED <<dbvars, facade>>

\* after the loop: delete_at(&dir) and Self::initialize()
BackupFinish(failed) ==
    /\ bk.pc = "moving"
    /\ bk.todo = << >>
    /\ LET f1 == DeleteAt(fs, bk.dir, failed)
       IN  IF DefaultDir = None
           THEN /\ fs' = f1
                /\ states' = states
                /\ cli_last' = CliReturned("backup_and_reset", "error", bk.dir, "", bk.prior)
           ELSE LET d == DefaultDir[1]
                IN  /\ fs' = InitializeCliState(CreateDirAll(f1, <<d, "defaults">>), d)
                    /\ states' = states \cup {d}
                    /\ cli_last' = CliReturned("backup_and_reset", "ok", bk.dir, d, bk.prior)
    /\ bk' = NoBackup
    /\ UNCHANGED <<ockam_home, home_known>>
    /\ UNCHANGED <<dbvars, facade>>


\* ------------------------------------------------- queries on a CliState
MaxRecordNames == 2

RecordNamePool == <<"r1", "r2", "r3">>
RecordNames == {RecordNamePool[k] : k \in 1..MaxRecordNames}

\* get(name) of a file-backed category
StateGet(f, d, c, name) ==
    IF <<d, c, name>> \in f THEN Ok(name) ELSE ResourceNotFound(DefaultName(c), name)

\* default() of a file-backed category
StateDefault(f, d, c) ==
    IF DefaultItems(f, d, c) = {}
    THEN ResourceNotFound(DefaultName(c), "default")
    ELSE Ok(CHOOSE item \in DefaultItems(f, d, c) : TRUE)

\* delete(name) of a file-backed category: the file goes, and the marker with
\* it when the item was the default; no other item becomes the default
DeleteItem(f, d, c, item) ==
    LET f1 == f \ {<<d, c, item>>}
    IN  IF item \in DefaultItems(f, d, c)
        THEN {q \in f1 : ~IsPrefix(DefaultMarker(d, c), q)}
        ELSE f1

DeleteEntity(d, c, item) ==
    /\ bk.pc = "idle"
    /\ d \in states
    /\ <<d, c, item>> \in fs
    /\ fs' = DeleteItem(fs, d, c, item)
    /\ cli_last' = CliValue("delete_item", d, item, Ok(item))
    /\ UNCHANGED <<ockam_home, home_known, states, bk>>
    /\ UNCHANGED <<dbvars, facade>>

\* the table of the enrollments repository
EnrollmentTable == "identity_enrollment"

\* CliState::is_default_identity_enrolled: the enrollments repository holds
\* the enrollment of the default identity
IsDefaultIdentityEnrolled(f, d) == <<d, DatabaseFile, EnrollmentTable>> \in f

\* the messages of is_enrolled
NoDefaultSpace == "There should be a default space set for the current user. Please re-enroll"
NoDefaultProject == "There should be a default project set for the current user. Please re-enroll"

BoolName(b) == IF b THEN "true" ELSE "false"

\* the default space is asked for and missing, yet the call answers false
IsEnrolledResultLenient(enrolled, default_space_exists, default_project_exists) ==
    IF ~enrolled \/ ~default_space_exists THEN Ok(BoolName(FALSE))
    ELSE IF ~default_project_exists THEN InvalidOperation(NoDefaultProject)
    ELSE Ok(BoolName(TRUE))

\* CliState::is_enrolled, from what its three checks find
IsEnrolledResult(enrolled, default_space_exists, default_project_exists) ==
    IF ~enrolled THEN Ok(BoolName(FALSE))
    ELSE IF ~default_space_exists THEN InvalidOperation(NoDefaultSpace)
    ELSE IF ~default_project_exists THEN InvalidOperation(NoDefaultProject)
    ELSE Ok(BoolName(TRUE))

IsEnrolled(d) ==
    /\ bk.pc = "idle"
    /\ d \in states
    /\ cli_last' = CliValue("is_enrolled", d, "",
            IsEnrolledResult(IsDefaultIdentityEnrolled(fs, d),
                             StateDefault(fs, d, "spaces").variant = "Ok",
                             StateDefault(fs, d, "projects").variant = "Ok"))
    /\ UNCHANGED <<fs, ockam_home, home_known, states, bk>>
    /\ UNCHANGED <<dbvars, facade>>

\* a vault is created whenever no name is given
CreateVaultStateTierAlwaysNew(vault_name, default) ==
    IF vault_name # None THEN "get" ELSE "create"

\* CliState::create_vault_state: which of its three branches is taken
CreateVaultStateTier(vault_name, default) ==
    IF vault_name # None THEN "get"
    ELSE IF default.variant = "Ok" THEN "default"
    ELSE "create"

\* CliState::create_vault_state(vault_name), n the name random_name() yields
CreateVaultState(d, vault_name, n) ==
    /\ bk.pc = "idle"
    /\ d \in states
    /\ <<d, "vaults">> \in fs
    /\ <<d, "defaults">> \in fs
    /\ LET tier == CreateVaultStateTier(vault_name, StateDefault(fs, d, "vaults"))
           arg == IF vault_name = None THEN "" ELSE vault_name[1]
       IN  CASE tier = "get" ->
                    /\ fs' = fs
                    /\ cli_last' = CliValue("create_vault_state", d, arg,
                                            StateGet(fs, d, "vaults", vault_name[1]))
             [] tier = "default" ->
                    /\ fs' = fs
                    /\ cli_last' = CliValue("create_vault_state", d, arg,
                                            StateDefault(fs, d, "vaults"))
             [] tier = "create" ->
                    IF <<d, "vaults", n>> \in fs
                    THEN /\ fs' = fs
                         /\ cli_last' = CliValue("create_vault_state", d, arg,
                                                 AlreadyExists("vault", n))
                    ELSE /\ fs' = CreateItem(fs, d, "vaults", n)
                         /\ cli_last' = CliValue("create_vault_state", d, arg, Ok(n))
    /\ UNCHANGED <<ockam_home, home_known, states, bk>>
    /\ UNCHANGED <<dbvars, facade>>

\* the table of the vaults repository
VaultTable == "vault"

\* the names of the rows of the vaults repository, and of its default rows
VaultRows(f, d) ==
    {q[4] : q \in {x \in f : Len(x) = 4 /\ IsPrefix(<<d, DatabaseFile, VaultTable>>, x)}}

DefaultVaultRows(f, d) ==
    {name \in VaultRows(f, d) : <<d, DatabaseFile, VaultTable, name, "is_default">> \in f}

\* the vaults repository stores a vault; the first one is the default
StoreVault(d, name) ==
    /\ bk.pc = "idle"
    /\ d \in states
    /\ <<d>> \in fs
    /\ name \notin VaultRows(fs, d)
    /\ fs' = fs \cup {<<d, DatabaseFile>>, <<d, DatabaseFile, VaultTable>>,
                      <<d, DatabaseFile, VaultTable, name>>}
                \cup (IF DefaultVaultRows(fs, d) = {}
                      THEN {<<d, DatabaseFile, VaultTable, name, "is_default">>} ELSE {})
    /\ cli_last' = CliValue("store_vault", d, name, Ok(name))
    /\ UNCHANGED <<ockam_home, home_known, states, bk>>
    /\ UNCHANGED <<dbvars, facade>>

\* VaultsRepository::get_vault_by_name
GetVaultByName(f, d, name) == IF name \in VaultRows(f, d) THEN Some(name) ELSE None

\* VaultsRepository::get_default_vault and get_default_vault_name
GetDefaultVaultRow(f, d) == FetchOptional(DefaultVaultRows(f, d))

\* result.ok_or_else(|| ockam_core::Error::new(Origin::Api, Kind::NotFound, message).into())
OkOrNotFound(result, message) ==
    IF result = None THEN Ockam("NotFound", message) ELSE Ok(result[1])

\* CliState::get_vault
GetVault(d, vault_name) ==
    /\ bk.pc = "idle"
    /\ d \in states
    /\ cli_last' = CliValue("get_vault", d, vault_name,
            OkOrNotFound(GetVaultByName(fs, d, vault_name), "no vault found with name"))
    /\ UNCHANGED <<fs, ockam_home, home_known, states, bk>>
    /\ UNCHANGED <<dbvars, facade>>

\* CliState::get_default_vault
GetDefaultVault(d) ==
    /\ bk.pc = "idle"
    /\ d \in states
    /\ \E result \in GetDefaultVaultRow(fs, d) :
        cli_last' = CliValue("get_default_vault", d, "",
                             OkOrNotFound(result, "no default vault found"))
    /\ UNCHANGED <<fs, ockam_home, home_known, states, bk>>
    /\ UNCHANGED <<dbvars, facade>>

\* CliState::get_default_vault_name
GetDefaultVaultName(d) ==
    /\ bk.pc = "idle"
    /\ d \in states
    /\ \E result \in GetDefaultVaultRow(fs, d) :
        cli_last' = CliValue("get_default_vault_name", d, "",
                             OkOrNotFound(result, "no default vault found"))
    /\ UNCHANGED <<fs, ockam_home, home_known, states, bk>>
    /\ UNCHANGED <<dbvars, facade>>

\* set_default(name) of a file-backed category
SetAsDefaultEntity(d, c, item) ==
    /\ bk.pc = "idle"
    /\ d \in states
    /\ <<d, "defaults">> \in fs
    /\ IF <<d, c, item>> \in fs
       THEN /\ fs' = SetDefaultItem(fs, d, c, item)
            /\ cli_last' = CliValue("set_default", d, item, Ok(item))
       ELSE /\ fs' = fs
            /\ cli_last' = CliValue("set_default", d, item,
                                    ResourceNotFound(DefaultName(c), item))
    /\ UNCHANGED <<ockam_home, home_known, states, bk>>
    /\ UNCHANGED <<dbvars, facade>>

\* the table of the nodes repository
NodeTable == "node"

\* the names of the rows of the nodes repository, and of its default rows
NodeRows(f, d) ==
    {q[4] : q \in {x \in f : Len(x) = 4 /\ IsPrefix(<<d, DatabaseFile, NodeTable>>, x)}}

DefaultNodeRows(f, d) ==
    {name \in NodeRows(f, d) : <<d, DatabaseFile, NodeTable, name, "is_default">> \in f}

\* CliState::create_node: the row of the node, the default when there is none
CreateNode(d, name) ==
    /\ bk.pc = "idle"
    /\ d \in states
    /\ <<d>> \in fs
    /\ name \notin NodeRows(fs, d)
    /\ fs' = fs \cup {<<d, DatabaseFile>>, <<d, DatabaseFile, NodeTable>>,
                      <<d, DatabaseFile, NodeTable, name>>}
                \cup (IF DefaultNodeRows(fs, d) = {}
                      THEN {<<d, DatabaseFile, NodeTable, name, "is_default">>} ELSE {})
    /\ cli_last' = CliValue("create_node", d, name, Ok(name))
    /\ UNCHANGED <<ockam_home, home_known, states, bk>>
    /\ UNCHANGED <<dbvars, facade>>

\* CliState::set_default_node: the row of the node is the default, no other is
SetDefaultNode(d, name) ==
    /\ bk.pc = "idle"
    /\ d \in states
    /\ IF name \in NodeRows(fs, d)
       THEN /\ fs' = {q \in fs : ~(/\ Len(q) = 5
                                    /\ IsPrefix(<<d, DatabaseFile, NodeTable>>, q))}
                        \cup {<<d, DatabaseFile, NodeTable, name, "is_default">>}
            /\ cli_last' = CliValue("set_default_node", d, name, Ok(name))
       ELSE /\ fs' = fs
            /\ cli_last' = CliValue("set_default_node", d, name,
                                    ResourceNotFound("node", name))
    /\ UNCHANGED <<ockam_home, home_known, states, bk>>
    /\ UNCHANGED <<dbvars, facade>>

\* ------------------------------------------------------ the Identities facade
\* SqlxDatabase::in_memory(): a database of its own, made where it is called
InMemory == "in_memory"

\* Identities::builder(): each repository is `create()`d on a new in-memory
\* database
Builder ==
    [change_history_repository |-> InMemory,
     identity_attributes_repository |-> InMemory,
     purpose_keys_repository |-> InMemory]

\* IdentitiesBuilder::with_change_history_repository
WithChangeHistoryRepository(builder, database) ==
    [builder EXCEPT !.change_history_repository = database]

\* IdentitiesBuilder::with_purpose_keys_repository
WithPurposeKeysRepository(builder, database) ==
    [builder EXCEPT !.purpose_keys_repository = database]

\* CliState::get_identities: the databases the repositories of the Identities
\* value it builds are on; self.database() is the store file
GetIdentitiesRepositories ==
    WithPurposeKeysRepository(WithChangeHistoryRepository(Builder, DatabaseFile),
                              DatabaseFile)

\* build(): the Identities value; `in_memory` is table identity_attributes of
\* the in-memory database its builder made
GetIdentities(p) ==
    /\ call[p].pc = "idle"
    /\ facade' = Some([repositories |-> GetIdentitiesRepositories, in_memory |-> {}])
    /\ last' = Returned("get_identities", "ok", "", "", FALSE)
    /\ UNCHANGED <<named_identity, identity, identity_attributes, call, clock>>
    /\ UNCHANGED clivars

\* table identity_attributes as identities.identity_attributes_repository() sees it
FacadeAttributes ==
    IF facade[1].repositories.identity_attributes_repository = DatabaseFile
    THEN identity_attributes
    ELSE facade[1].in_memory

\* identities.identity_attributes_repository().get_attributes(identifier)
FacadeGetAttributes(identifier) ==
    {IF o = None THEN None ELSE Some(RowAttributes(o[1])) :
        o \in FetchOptional({r \in FacadeAttributes : r.identifier = identifier})}

\* identities.identity_attributes_repository().put_attributes(sender, entry)
FacadePutAttributes(p, sender, entry) ==
    /\ call[p].pc = "idle"
    /\ facade # None
    /\ IF facade[1].repositories.identity_attributes_repository = DatabaseFile
       THEN /\ identity_attributes' =
                    InsertOrReplaceAttributes(identity_attributes, sender, entry)
            /\ facade' = facade
       ELSE /\ facade' = Some([facade[1] EXCEPT !.in_memory =
                    InsertOrReplaceAttributes(facade[1].in_memory, sender, entry)])
            /\ identity_attributes' = identity_attributes
    /\ last' = Returned("identities.put_attributes", "ok", sender, "", FALSE)
    /\ UNCHANGED <<named_identity, identity, call, clock>>
    /\ UNCHANGED clivars

\* ------------------------------------------------------------ specifications
InitDb ==
    /\ named_identity = {}
    /\ identity = {}
    /\ identity_attributes = {}
    /\ call = [p \in Procs |-> Idle]
    /\ last = NoCall
    /\ clock = 0

InitCli ==
    /\ fs = {}
    /\ ockam_home \in {None, Some("alt")}
    /\ home_known \in BOOLEAN
    /\ states = {}
    /\ bk = NoBackup
    /\ cli_last = CliReturned("none", "none", "", "", {})
    /\ facade = None

\* the repositories, under a CliState that stays as it is
Init ==
    /\ InitDb
    /\ InitCli
    /\ ockam_home = None
    /\ home_known

\* the directory lifecycle, under any environment
InitAnyEnv == InitDb /\ InitCli

\* the named-identity registry, callers running concurrently
RegistryCall(p) ==
    \/ \E i \in Identifiers, n \in Names : NameIdentity(p, i, n)
    \/ \E i \in Identifiers : SetAsDefaultQuery1(p, i)
    \/ SetAsDefaultQuery2(p)
    \/ SetAsDefaultQuery2Fails(p)
    \/ \E n \in Names : SetAsDefaultByName(p, n)
    \/ \E n \in Names : DeleteIdentityByName(p, n)

NextRegistry == \E p \in Procs : RegistryCall(p)

SpecRegistry == Init /\ [][NextRegistry]_vars

\* the named-identity registry, one caller: every call returns before the next
NextRegistrySeq == RegistryCall(1)

SpecRegistrySeq == Init /\ [][NextRegistrySeq]_vars

\* put_attribute_value, callers running concurrently
NextAttributes ==
    \/ \E p \in Procs :
        \/ \E i \in Identifiers, k \in AttrNames, v \in AttrValues :
                PutAttributeValueRead(p, i, k, v)
        \/ PutAttributeValueWrite(p)
        \/ PutAttributeValueFails(p)
    \/ Tick

SpecAttributes == Init /\ [][NextAttributes]_vars

\* the entries put_attributes is called with here: self-attested, at most one attribute
SmallEntries(subject) ==
    {AttributesEntry(m, 0, None, Some(subject)) :
        m \in {EmptyMap} \cup {MapInsert(EmptyMap, k, v) : k \in AttrNames, v \in AttrValues}}

\* the change-history repository and the attributes rows it cascades to,
\* callers running concurrently
IdentityCall(p) ==
    \/ \E idn \in Identities : StoreIdentity(p, idn)
    \/ \E idn \in Identities : UpdateIdentity(p, idn)
    \/ \E i \in Identifiers : DeleteIdentityQuery1(p, i)
    \/ DeleteIdentityQuery2(p)
    \/ DeleteIdentityQuery2Fails(p)
    \/ \E i \in Identifiers : \E e \in SmallEntries(i) : PutAttributes(p, i, e)
    \/ \E i \in Identifiers : DeleteAttributes(p, i)

NextIdentity == \E p \in Procs : IdentityCall(p)

SpecIdentity == Init /\ [][NextIdentity]_vars

\* the same, one caller: every call returns before the next
NextIdentitySeq == IdentityCall(1)

SpecIdentitySeq == Init /\ [][NextIdentitySeq]_vars

\* the subjects whose attributes are stored here
Subjects == {IdPool[1], IdPool[2]}

\* the entries put_attributes is called with here: no or one attribute;
\* self-attested, attested by another identity until MaxClock, or by none
PutEntries(subject) ==
    {AttributesEntry(m, 0, meta[1], meta[2]) :
        m \in {EmptyMap} \cup {MapInsert(EmptyMap, k, v) : k \in AttrNames, v \in AttrValues},
        meta \in {<<None, Some(subject)>>, <<None, None>>}
                    \cup {<<Some(MaxClock), Some(i)>> : i \in Identifiers \ {subject}}}

\* the identity-attributes repository, one caller, within one second
NextAttrSeq ==
    \/ \E i \in Subjects : \E e \in PutEntries(i) : PutAttributes(1, i, e)
    \/ \E i \in Subjects, k \in AttrNames, v \in AttrValues : PutAttributeValueRead(1, i, k, v)
    \/ PutAttributeValueWrite(1)
    \/ \E i \in Subjects : DeleteAttributes(1, i)

SpecAttrSeq == Init /\ [][NextAttrSeq]_vars

\* put_attribute_value on entries that put_attributes stored, one caller, as
\* time passes
NextAttrMerge ==
    \/ \E i \in Subjects : \E e \in PutEntries(i) : PutAttributes(1, i, e)
    \/ \E i \in Subjects, k \in AttrNames, v \in AttrValues : PutAttributeValueRead(1, i, k, v)
    \/ PutAttributeValueWrite(1)
    \/ Tick

SpecAttrMerge == Init /\ [][NextAttrMerge]_vars

\* the repositories of the CliState and the Identities value it hands out,
\* one caller
NextFacade ==
    \/ GetIdentities(1)
    \/ \E i \in Identifiers : \E e \in SmallEntries(i) :
            FacadePutAttributes(1, i, e) \/ PutAttributes(1, i, e)
    \/ \E idn \in Identities : StoreIdentity(1, idn)
    \/ \E i \in Identifiers : DeleteIdentityQuery1(1, i)
    \/ DeleteIdentityQuery2(1)

SpecFacade == Init /\ [][NextFacade]_vars

\* the change-history repository, one caller who also reads
NextHistorySeq ==
    \/ \E idn \in Identities : StoreIdentity(1, idn) \/ UpdateIdentity(1, idn)
    \/ \E i \in Identifiers : DeleteIdentityQuery1(1, i)
    \/ DeleteIdentityQuery2(1)
    \/ \E i \in Identifiers : GetChangeHistoryOptionalCall(1, i)
    \/ \E i \in Identifiers : GetChangeHistoryCall(1, i)

SpecHistorySeq == Init /\ [][NextHistorySeq]_vars

\* callers of the calls that keep a connection, on one identifier, and the pool
NextPool ==
    \E p \in Procs :
        \/ \E op \in PooledOps : PoolBegin(p, op, IdPool[1])
        \/ PoolGrant(p)
        \/ PoolStatement(p)
        \/ PoolClose(p)
        \/ PoolTimesOut(p)

SpecPool == Init /\ [][NextPool]_vars

\* here every removal of delete_at succeeds
NoFailure == {}

\* what callers do with a CliState whose dir is d
UseState(d) ==
    \/ /\ Cardinality({q \in fs : Len(q) = 3}) < MaxEntities
       /\ \/ \E k \in 1..Len(StateDirs), item \in Items : CreateEntity(d, StateDirs[k], item)
          \/ \E t \in DbTables : StoreRow(d, t)
          \/ \E item \in Items : NodeDir(d, item)
    \/ Reset(d, NoFailure)

\* the lifecycle of the default directory
NextCli ==
    \/ Initialize
    \/ \E d \in RootDirs : UseState(d)
    \/ Delete(NoFailure)
    \/ \E remove_fails \in BOOLEAN, create_fails \in BOOLEAN :
            BackupPrepare(remove_fails, create_fails)
    \/ BackupMove
    \/ BackupMoveFails
    \/ BackupFinish(NoFailure)

SpecCli == InitAnyEnv /\ [][NextCli]_vars

\* CliState values of several directories
NextCliDirs ==
    \/ Initialize
    \/ \E d \in RootDirs : New(d)
    \/ \E d \in RootDirs : UseState(d)
    \/ Delete(NoFailure)

SpecCliDirs == InitAnyEnv /\ [][NextCliDirs]_vars

\* what delete_at tries to remove: the directories of its loop, the config
\* file, and the root directory itself (".")
RemovalTargets == {DeleteTargetDirs[k] : k \in 1..Len(DeleteTargetDirs)} \cup {"config.json"}

\* the removals that fail in one run of delete_at: none, one, or all
Failures ==
    {{}} \cup {{a} : a \in RemovalTargets \cup {"."}} \cup {RemovalTargets \cup {"."}}

\* the default directory is populated and deleted, removals failing
NextCleanup ==
    \/ Initialize
    \/ UseState("home")
    \/ WriteConfig("home")
    \/ \E failed \in Failures : Delete(failed)
    \/ \E failed \in Failures : Reset("home", failed)

SpecCleanup == Init /\ [][NextCleanup]_vars

\* enrollment: the default space, the default project and the enrollment of
\* the default identity come and go, and is_enrolled is asked
NextEnroll ==
    \/ Initialize
    \/ \E d \in RootDirs, c \in {"spaces", "projects"}, item \in RecordNames :
            CreateEntity(d, c, item) \/ DeleteEntity(d, c, item)
    \/ \E d \in RootDirs : StoreRow(d, EnrollmentTable)
    \/ \E d \in RootDirs : IsEnrolled(d)

SpecEnroll == Init /\ [][NextEnroll]_vars

\* vaults: the files of the vaults state, the rows of the vaults repository,
\* and the calls that resolve a vault
NextVaults ==
    \/ Initialize
    \/ \E d \in RootDirs, v \in RecordNames :
            \/ CreateEntity(d, "vaults", v)
            \/ DeleteEntity(d, "vaults", v)
            \/ StoreVault(d, v)
            \/ GetVault(d, v)
            \/ \E vault_name \in {None} \cup {Some(x) : x \in RecordNames} :
                    CreateVaultState(d, vault_name, v)
    \/ \E d \in RootDirs : GetDefaultVault(d) \/ GetDefaultVaultName(d)

SpecVaults == Init /\ [][NextVaults]_vars

\* defaults: vaults and nodes are created, deleted and made the default
NextDefaults ==
    \/ Initialize
    \/ \E d \in RootDirs, name \in RecordNames :
            \/ CreateEntity(d, "vaults", name)
            \/ DeleteEntity(d, "vaults", name)
            \/ SetAsDefaultEntity(d, "vaults", name)
            \/ CreateNode(d, name)
            \/ SetDefaultNode(d, name)

SpecDefaults == Init /\ [][NextDefaults]_vars

Next ==
    \/ NextRegistry \/ NextAttributes \/ NextIdentity \/ NextCli \/ NextCliDirs
    \/ NextEnroll \/ NextVaults \/ NextHistorySeq \/ NextAttrSeq \/ NextFacade
    \/ NextDefaults \/ NextAttrMerge \/ NextCleanup \/ NextPool

Spec == Init /\ [][Next]_vars

\* ------------------------------------------------------------------- claims

\* C1: after any sequence of name_identity, set_as_default,
\* set_as_default_by_name and delete_identity_by_name calls, at most one row of
\* named_identity has is_default = true.
C1_AtMostOneDefault ==
    InFlight = {} => Cardinality(DefaultRows) <= 1

\* every identifier of the registry has one name
OneNamePerIdentifier ==
    \A r1, r2 \in named_identity : r1.identifier = r2.identifier => r1 = r2

\* C2: while set_as_default is between its statements, having started from a
\* registry with one default row, a reader sees exactly one default row: never
\* two, never none (shown on registries with one name per identifier).
C2_DefaultSwapIsAtomic ==
    \A p \in Procs :
        (/\ InFlight = {p}
         /\ call[p].op = "set_as_default"
         /\ call[p].local = Some(1)
         /\ OneNamePerIdentifier)
            => Cardinality(DefaultRows) = 1

\* C3: a set_as_default that fails between its two statements, having started
\* from at most one default row, does not leave more than one default row
\* (shown on registries with one name per identifier).
C3_FailedSwapLeavesOneDefault ==
    (/\ InFlight = {}
     /\ last.op = "set_as_default"
     /\ last.status = "error"
     /\ last.flag
     /\ OneNamePerIdentifier)
        => Cardinality(DefaultRows) <= 1

\* C4: once set_as_default(Y) or set_as_default_by_name(Y's name) has returned
\* for a Y that has a row, every default query returns Y and nothing else
\* (shown on registries with one name per identifier).
C4_DefaultQueriesReturnTarget ==
    /\ (/\ InFlight = {}
        /\ OneNamePerIdentifier
        /\ last.op = "set_as_default"
        /\ last.status = "ok"
        /\ \E r \in named_identity : r.identifier = last.identifier)
            => /\ GetDefaultIdentifier = {Some(last.identifier)}
               /\ \A o \in GetDefaultNamedIdentity :
                    o # None /\ o[1].identifier = last.identifier
               /\ \A o \in GetDefaultIdentityName :
                    /\ o # None
                    /\ GetIdentifierByName(o[1]) = {Some(last.identifier)}
    /\ (/\ InFlight = {}
        /\ OneNamePerIdentifier
        /\ last.op = "set_as_default_by_name"
        /\ last.status = "ok"
        /\ \E r \in named_identity : r.name = last.name)
            => /\ GetDefaultIdentifier = GetIdentifierByName(last.name)
               /\ \A o \in GetDefaultNamedIdentity : o # None /\ o[1].name = last.name
               /\ GetDefaultIdentityName = {Some(last.name)}

\* the attribute map stored for `identifier` in `table`, empty when it has no row
StoredAttrs(table, identifier) ==
    IF \E r \in table : r.identifier = identifier
    THEN CborDecode((CHOOSE r \in table : r.identifier = identifier).attributes)
    ELSE EmptyMap

\* C5: no write of put_attribute_value is lost: when a call stores its entry,
\* every pair the subject holds at that moment under another attribute name,
\* written by a call that ran concurrently, is still there afterwards, so
\* that two calls with different names leave both pairs.
C5_NoLostAttributeWrite ==
    [][\A p \in Procs :
        (/\ call[p].op = "put_attribute_value"
         /\ call'[p].pc = "idle"
         /\ last'.status = "ok"
         /\ identity_attributes' # identity_attributes)
            => LET before == StoredAttrs(identity_attributes, call[p].identifier)
                   after == StoredAttrs(identity_attributes', call[p].identifier)
               IN  \A k \in DOMAIN before \ {call[p].name} :
                        k \in DOMAIN after /\ after[k] = before[k]]_vars

\* C6: delete_identity on an identifier that has a change history and
\* attributes never exposes, between its statements or after failing at the
\* second, the change-history row gone with the attributes row still there.
C6_CascadeIsAtomic ==
    /\ \A p \in Procs :
        (/\ InFlight = {p}
         /\ call[p].op = "delete_identity"
         /\ call[p].local = Some(TRUE))
            => ~(/\ IdentityRowsOf(call[p].identifier) = {}
                 /\ AttributesRowsOf(call[p].identifier) # {})
    /\ (/\ InFlight = {}
        /\ last.op = "delete_identity"
        /\ last.status = "error"
        /\ last.flag)
            => ~(/\ IdentityRowsOf(last.identifier) = {}
                 /\ AttributesRowsOf(last.identifier) # {})

\* the rows of `table` that belong to other identifiers
OtherRows(table, identifier) == {r \in table : r.identifier # identifier}

\* C7: after delete_identity(id) has returned successfully on a store that
\* held a change history and attributes of id, get_change_history_optional(id)
\* and get_attributes(id) return none; and no step of the call changes a row
\* of another identifier, in either table.
C7_DeleteIdentityRemovesBoth ==
    /\ []((/\ InFlight = {}
           /\ last.op = "delete_identity"
           /\ last.status = "ok"
           /\ last.flag)
            => /\ GetChangeHistoryOptional(last.identifier) = {None}
               /\ GetAttributes(last.identifier) = {None})
    /\ [][\A p \in Procs :
            (call[p].op = "delete_identity" \/ call'[p].op = "delete_identity")
                => LET id == IF call[p].op = "delete_identity"
                             THEN call[p].identifier ELSE call'[p].identifier
                   IN  /\ OtherRows(identity', id) = OtherRows(identity, id)
                       /\ OtherRows(identity_attributes', id)
                            = OtherRows(identity_attributes, id)]_vars

\* a delete_identity(id) has returned on a store that held both rows of id,
\* next to rows of another identifier in both tables
C7_Witness ==
    /\ InFlight = {}
    /\ last.op = "delete_identity"
    /\ last.status = "ok"
    /\ last.flag
    /\ OtherRows(identity, last.identifier) # {}
    /\ OtherRows(identity_attributes, last.identifier) # {}

\* C8: a backup_and_reset that fails, at whatever step, leaves the root
\* directory with the complete tree it had when the call began.
C8_FailedBackupKeepsRoot ==
    (/\ bk.pc = "idle"
     /\ cli_last.op = "backup_and_reset"
     /\ cli_last.status = "error"
     /\ cli_last.root # "")
        => Tree(fs, <<cli_last.root>>) = cli_last.prior

\* C9: reset() on a populated directory leaves no named entity in any
\* category of the state it returns, file-backed or database-backed, removes
\* the store file, and creates no backup directory.
C9_ResetLeavesNothing ==
    [][(/\ cli_last'.op = "reset"
        /\ cli_last'.status = "ok"
        /\ cli_last'.prior # {}
        /\ <<fs, cli_last>>' # <<fs, cli_last>>)
            => /\ Entities(fs', cli_last'.root) = {}
               /\ Entities(fs', cli_last'.dir) = {}
               /\ <<cli_last'.root, DatabaseFile>> \notin fs'
               /\ Tree(fs', <<BackupName(cli_last'.root)>>)
                    = Tree(fs, <<BackupName(cli_last'.root)>>)]_vars

\* C10: the state reset() returns for a CliState whose dir is D has dir D, and
\* it is D that is re-created and initialized.
C10_ResetInPlace ==
    (cli_last.op = "reset" /\ cli_last.status = "ok")
        => /\ cli_last.dir = cli_last.root
           /\ \A k \in 1..Len(StateDirs) : <<cli_last.root, StateDirs[k]>> \in fs

\* the tree `prior` of root d as it reads once moved to the backup directory
MovedToBackup(prior, d) ==
    {<<BackupName(d)>> \o SubSeq(q, 2, Len(q)) : q \in prior}

\* the tree of a root directory that has just been initialized
FreshRoot(d) == InitializeCliState(CreateDirAll({}, <<d, "defaults">>), d)

\* C11: after backup_and_reset has returned successfully, the backup
\* directory holds exactly the tree the root had when the call began (every
\* entry of it, and nothing of an earlier backup), and the root is a freshly
\* initialized directory with no entity of the prior state.
C11_BackupHoldsPriorTree ==
    (/\ bk.pc = "idle"
     /\ cli_last.op = "backup_and_reset"
     /\ cli_last.status = "ok")
        => /\ Tree(fs, <<BackupName(cli_last.root)>>)
                = MovedToBackup(cli_last.prior, cli_last.root)
           /\ cli_last.dir = cli_last.root
           /\ Tree(fs, <<cli_last.root>>) = FreshRoot(cli_last.root)

\* C12: after delete has returned successfully the root directory, with all
\* that was below it, no longer exists.
C12_DeleteLeavesUninitialized ==
    (/\ bk.pc = "idle"
     /\ cli_last.op = "delete"
     /\ cli_last.status = "ok")
        => Tree(fs, <<cli_last.root>>) = {}

VaultFiles(f, d) == {q \in f : Len(q) = 3 /\ q[1] = d /\ q[2] = "vaults"}

\* C14: create_vault_state returns the named vault when given the name of one;
\* with no name it returns the default vault when there is one, and only when
\* there is none does it create a vault, under a name no vault has; no call
\* creates a vault while a default vault exists, and none removes a vault.
C14_CreateVaultStateTiers ==
    [][cli_last'.op = "create_vault_state" =>
        LET d == cli_last'.root
            defaults == DefaultItems(fs, d, "vaults")
            arg == cli_last'.arg
            v == cli_last'.value
        IN  /\ (arg # "" /\ <<d, "vaults", arg>> \in fs) => v = Ok(arg)
            /\ (arg = "" /\ defaults # {}) => (v.variant = "Ok" /\ v.name \in defaults)
            /\ (arg = "" /\ defaults = {} /\ v.variant = "Ok")
                    => /\ <<d, "vaults", v.name>> \notin fs
                       /\ VaultFiles(fs', d) = VaultFiles(fs, d) \cup {<<d, "vaults", v.name>>}
            /\ VaultFiles(fs', d) # VaultFiles(fs, d) => (arg = "" /\ defaults = {})
            /\ VaultFiles(fs, d) \subseteq VaultFiles(fs', d)]_vars

\* create_vault_state, given no name, has returned the default vault of a
\* directory that holds another vault too
C14_Witness ==
    /\ cli_last.op = "create_vault_state"
    /\ cli_last.arg = ""
    /\ cli_last.status = "ok"
    /\ cli_last.value.name \in DefaultItems(fs, cli_last.root, "vaults")
    /\ Cardinality(VaultFiles(fs, cli_last.root)) = 2

\* C15: get_vault of a name the vaults repository does not hold fails with
\* ResourceNotFound{resource: vault, name}; get_default_vault and
\* get_default_vault_name fail with ResourceNotFound when there is no default.
C15_LookupsFailWithResourceNotFound ==
    /\ (/\ cli_last.op = "get_vault"
        /\ cli_last.arg \notin VaultRows(fs, cli_last.root))
            => cli_last.value = ResourceNotFound("vault", cli_last.arg)
    /\ (/\ cli_last.op \in {"get_default_vault", "get_default_vault_name"}
        /\ DefaultVaultRows(fs, cli_last.root) = {})
            => /\ cli_last.value.variant = "ResourceNotFound"
               /\ cli_last.value.resource = "vault"

\* C16: name_identity under a name that a row already has fails and leaves
\* the registry as it was: the row keeps its identifier and its default flag.
C16_NameTakenFails ==
    [][(/\ last'.op = "name_identity"
        /\ call' = call
        /\ \E r \in named_identity : r.name = last'.name)
            => /\ last'.status = "error"
               /\ named_identity' = named_identity]_vars

\* C17: whatever name_identity and delete_identity_by_name calls were made,
\* get_named_identities returns exactly the rows of the surviving names.
C17_ListReflectsSurvivors ==
    InFlight = {} => GetNamedIdentities = named_identity

\* C18: delete_identity_by_name of the default row removes that row and no
\* other, and elects no new default: afterwards the default queries report no
\* default, and every other row is as before, with is_default = false.
C18_DeleteDefaultElectsNone ==
    [][(/\ last'.op = "delete_identity_by_name"
        /\ call' = call
        /\ \E r \in DefaultRows : r.name = last'.name)
            => /\ named_identity' = {r \in named_identity : r.name # last'.name}
               /\ \A r \in named_identity' : ~r.is_default
               /\ GetDefaultIdentifier' = {None}
               /\ GetDefaultNamedIdentity' = {None}
               /\ GetDefaultIdentityName' = {None}]_vars

\* C19: store_identity of an identifier that has a row fails, and the stored
\* change history of that identifier stays as it was.
C19_StoreExistingFails ==
    [][(/\ last'.op = "store_identity"
        /\ call' = call
        /\ IdentityRowsOf(last'.identifier) # {})
            => /\ last'.status = "error"
               /\ identity' = identity]_vars

\* store_identity has failed on an identifier whose stored change history is
\* two changes long
C19_Witness ==
    /\ last.op = "store_identity"
    /\ last.status = "error"
    /\ \E r \in IdentityRowsOf(last.identifier) : Len(r.change_history) = 3

\* C20: update_identity adds, removes and renames no identifier, also when
\* the identifier has no row; it changes no row of another identifier and
\* nothing but the change history of the row it is given.
C20_UpdateKeepsIdentifiers ==
    [][(last'.op = "update_identity" /\ call' = call)
            => /\ {r.identifier : r \in identity'} = {r.identifier : r \in identity}
               /\ Cardinality(identity') = Cardinality(identity)
               /\ OtherRows(identity', last'.identifier)
                    = OtherRows(identity, last'.identifier)
               /\ identity_attributes' = identity_attributes
               /\ named_identity' = named_identity]_vars

\* update_identity has returned for an identifier that has a row, now two
\* changes long, next to the row of another identifier
C20_Witness ==
    /\ last.op = "update_identity"
    /\ \E r \in IdentityRowsOf(last.identifier) : Len(r.change_history) = 3
    /\ OtherRows(identity, last.identifier) # {}

\* the change histories an identifier can have stored
StoredHistories(identifier) ==
    {h \in {ChangeHistoryOf(identifier, n) : n \in 1..MaxChanges} :
        \E r \in IdentityRowsOf(identifier) : r.change_history = Export(h)}

\* C21: for an identifier with no stored row get_change_history fails with
\* ResourceNotFound and get_change_history_optional returns none without
\* error; for a stored identifier both return the stored change history.
C21_MissingFailsOptionalNone ==
    (InFlight = {} /\ last.op \in {"get_change_history", "get_change_history_optional"})
        => IF IdentityRowsOf(last.identifier) = {}
           THEN /\ last.history = None
                /\ last.op = "get_change_history"
                        => last.status = "error" /\ last.error = "ResourceNotFound"
                /\ last.op = "get_change_history_optional"
                        => last.status = "ok" /\ last.error = ""
           ELSE /\ last.status = "ok"
                /\ last.error = ""
                /\ \E h \in StoredHistories(last.identifier) : last.history = Some(h)

\* get_change_history has failed for an identifier without a row while
\* another identifier has one
C21_Witness ==
    /\ last.op = "get_change_history"
    /\ last.status = "error"
    /\ IdentityRowsOf(last.identifier) = {}
    /\ identity # {}

\* C22: what store_identity (and update_identity of a stored identifier)
\* exported is what get_change_history_optional imports: the call returns,
\* under the same identifier, a change history equal to the one given; and
\* every row of the table reads back as a change history of its identifier.
C22_StoreThenReadRoundTrip ==
    /\ [](\A r \in identity :
            \E h \in StoredHistories(r.identifier) :
                /\ GetChangeHistoryOptional(r.identifier) = {Some(h)}
                /\ h[1][1] = r.identifier)
    /\ [][\A idn \in Identities :
            \/ /\ StoreIdentity(1, idn)
               /\ last'.status = "ok"
            \/ /\ UpdateIdentity(1, idn)
               /\ IdentityRowsOf(idn.identifier) # {}
            => GetChangeHistoryOptional(idn.identifier)' = {Some(idn.change_history)}]_vars

\* store_identity has stored a change history of two changes next to the row
\* of another identifier
C22_Witness ==
    /\ last.op = "store_identity"
    /\ last.status = "ok"
    /\ \E r \in IdentityRowsOf(last.identifier) : Len(r.change_history) = 3
    /\ OtherRows(identity, last.identifier) # {}

\* C23: put_attributes(subject, entry) replaces the whole entry: afterwards
\* get_attributes(subject) returns exactly entry (attributes, added, expires,
\* attested_by) whatever the subject had before, list() holds exactly one pair
\* for subject, and the entries of other subjects are unchanged.
C23_PutAttributesReplaces ==
    [][\A i \in Subjects : \A e \in PutEntries(i) :
        (last'.identifier = i /\ PutAttributes(1, i, e))
            => /\ last'.status = "ok"
               /\ GetAttributes(i)' = {Some(e)}
               /\ {x \in List' : x[1] = i} = {<<i, e>>}
               /\ OtherRows(identity_attributes', i) = OtherRows(identity_attributes, i)]_vars

\* put_attributes has stored, next to the entry of another subject, an entry
\* that another identity attested and that expires
C23_Witness ==
    /\ last.op = "put_attributes"
    /\ \E r \in AttributesRowsOf(last.identifier) :
            /\ r.expires # None
            /\ r.attested_by \notin {None, Some(last.identifier)}
            /\ r.attributes # << >>
    /\ OtherRows(identity_attributes, last.identifier) # {}

\* the rows of `table` that belong to `identifier`
RowsOf(table, identifier) == {r \in table : r.identifier = identifier}

\* C24: a put_attribute_value(id, k, v) that returns successfully leaves id
\* with the attributes it had and k -> v (so that two calls in a row with
\* names k1 and k2 leave both pairs), and when the call before it was a
\* successful put_attribute_value of id too, the entry's added timestamp is
\* not earlier than it was.
C24_SequentialMerge ==
    [][(/\ call[1].op = "put_attribute_value"
        /\ call'[1].pc = "idle"
        /\ last'.status = "ok")
            => LET id == call[1].identifier
                   before == StoredAttrs(identity_attributes, id)
                   after == StoredAttrs(identity_attributes', id)
               IN  /\ DOMAIN after = DOMAIN before \cup {call[1].name}
                   /\ after[call[1].name] = call[1].value
                   /\ \A k \in DOMAIN before \ {call[1].name} : after[k] = before[k]
                   /\ RowsOf(identity_attributes', id) # {}
                   /\ (/\ last.op = "put_attribute_value"
                       /\ last.status = "ok"
                       /\ last.identifier = id)
                            => /\ RowsOf(identity_attributes, id) # {}
                               /\ \A r1 \in RowsOf(identity_attributes, id) :
                                    \A r2 \in RowsOf(identity_attributes', id) :
                                        r2.added >= r1.added]_vars

\* two put_attribute_value calls have left the subject with two attributes,
\* the second call a second after the first
C24_Witness ==
    /\ last.op = "put_attribute_value"
    /\ last.status = "ok"
    /\ \E r \in AttributesRowsOf(last.identifier) :
            /\ Len(r.attributes) = 2
            /\ r.added = 1
            /\ r.attested_by = Some(last.identifier)

\* C25: put_attribute_value keeps the attester of an existing entry: on a
\* subject whose entry another identity attested the attester stays, and only
\* where none is given (no entry, or an entry without attester) is the entry
\* attested by the subject itself.
C25_AttesterPreserved ==
    [][(/\ call[1].op = "put_attribute_value"
        /\ call'[1].pc = "idle"
        /\ last'.status = "ok")
            => LET id == call[1].identifier
                   given == {r.attested_by : r \in RowsOf(identity_attributes, id)} \ {None}
               IN  \A r2 \in RowsOf(identity_attributes', id) :
                        r2.attested_by \in (IF given = {} THEN {Some(id)} ELSE given)]_vars

\* C26: delete(identifier) of the attributes repository succeeds also when
\* the identifier has no entry, and then changes nothing; after it
\* get_attributes(identifier) returns none; a second delete changes nothing;
\* and the entries of other identifiers stay.
C26_DeleteIsIdempotent ==
    [][\A i \in Subjects :
        DeleteAttributes(1, i)
            => /\ last'.status = "ok"
               /\ AttributesRowsOf(i) = {} => identity_attributes' = identity_attributes
               /\ (last.op = "delete" /\ last.identifier = i)
                        => identity_attributes' = identity_attributes
               /\ GetAttributes(i)' = {None}
               /\ OtherRows(identity_attributes', i) = OtherRows(identity_attributes, i)]_vars

\* delete has returned for an identifier without entry while another has one
C26_Witness ==
    /\ last.op = "delete"
    /\ last.status = "ok"
    /\ AttributesRowsOf(last.identifier) = {}
    /\ identity_attributes # {}

\* C27: an entry without attributes is stored like any other: after
\* put_attributes(subject, entry with no attributes) get_attributes(subject)
\* returns that entry, not none, and list() includes the subject; and the
\* entry stays until a call on that subject deletes or replaces it.
C27_EmptyEntryIsStored ==
    /\ [][\A i \in Subjects : \A e \in PutEntries(i) :
            (e.attrs = EmptyMap /\ last'.identifier = i /\ PutAttributes(1, i, e))
                => /\ GetAttributes(i)' = {Some(e)}
                   /\ None \notin GetAttributes(i)'
                   /\ \E x \in List' : x[1] = i /\ x[2] = e]_vars
    /\ [][\A r \in identity_attributes :
            (r.attributes = CborEncode(EmptyMap) /\ r \notin identity_attributes')
                => /\ last'.identifier = r.identifier
                   /\ last'.op \in {"delete", "put_attributes", "put_attribute_value"}]_vars

\* the subject of the put_attributes that has just returned has an entry
\* without attributes, attested by another identity
C27_Witness ==
    /\ last.op = "put_attributes"
    /\ \E r \in AttributesRowsOf(last.identifier) :
            /\ r.attributes = << >>
            /\ r.attested_by \notin {None, Some(last.identifier)}

\* C28: the Identities value get_identities hands out is on the repositories
\* of the CliState: what was written through its identity_attributes_repository
\* is what the identity_attributes_repository of the CliState returns, and
\* after delete_identity on the change-history repository of the CliState the
\* identifier has no attributes through either.
C28_FacadeSharesRepositories ==
    (InFlight = {} /\ facade # None)
        => /\ \A i \in Identifiers : FacadeGetAttributes(i) = GetAttributes(i)
           /\ (last.op = "delete_identity" /\ last.status = "ok")
                => FacadeGetAttributes(last.identifier) = {None}

\* C29: with OCKAM_HOME set the root directory is the one it names, also when
\* no home directory can be determined, so that initialize and delete succeed
\* on it and backup_and_reset does not fail for want of a root; the
\* home-relative path is the root only when OCKAM_HOME is absent.
C29_OverrideResolves ==
    /\ (cli_last.op \in {"initialize", "delete"} /\ ockam_home # None)
            => /\ cli_last.status = "ok"
               /\ ockam_home[1] \in {cli_last.root, cli_last.dir}
    /\ (cli_last.op = "backup_and_reset" /\ ockam_home # None)
            => cli_last.root = ockam_home[1]
    /\ (cli_last.op \in {"initialize", "delete"} /\ ockam_home = None /\ home_known)
            => /\ cli_last.status = "ok"
               /\ "home" \in {cli_last.root, cli_last.dir}

\* C30: the first vault, and the first node, created in a directory that has
\* none becomes the default of its category; creating another while there is
\* a default leaves the default as it is; and after set_as_default of an
\* item, get_default returns that item, while get of every other item still
\* returns it, with is_default = false.
C30_FirstCreatedIsDefault ==
    [][\A d \in RootDirs, name \in RecordNames :
        /\ CreateEntity(d, "vaults", name)
                => /\ StateGet(fs', d, "vaults", name) = Ok(name)
                   /\ VaultFiles(fs, d) = {} => StateDefault(fs', d, "vaults") = Ok(name)
                   /\ DefaultItems(fs, d, "vaults") # {}
                        => DefaultItems(fs', d, "vaults") = DefaultItems(fs, d, "vaults")
        /\ (SetAsDefaultEntity(d, "vaults", name) /\ <<d, "vaults", name>> \in fs)
                => /\ StateDefault(fs', d, "vaults") = Ok(name)
                   /\ DefaultItems(fs', d, "vaults") = {name}
                   /\ VaultFiles(fs', d) = VaultFiles(fs, d)
                   /\ \A q \in VaultFiles(fs, d) : StateGet(fs', d, "vaults", q[3]) = Ok(q[3])
        /\ CreateNode(d, name)
                => /\ name \in NodeRows(fs', d)
                   /\ NodeRows(fs, d) = {} => DefaultNodeRows(fs', d) = {name}
                   /\ DefaultNodeRows(fs, d) # {}
                        => DefaultNodeRows(fs', d) = DefaultNodeRows(fs, d)
        /\ (SetDefaultNode(d, name) /\ name \in NodeRows(fs, d))
                => /\ DefaultNodeRows(fs', d) = {name}
                   /\ NodeRows(fs', d) = NodeRows(fs, d)]_vars

\* the second vault and the second node of the directory have been made the
\* default, the first ones are still there
C30_Witness ==
    /\ cli_last.op \in {"set_default", "set_default_node"}
    /\ cli_last.status = "ok"
    /\ Cardinality(VaultFiles(fs, cli_last.root)) = 2
    /\ Cardinality(NodeRows(fs, cli_last.root)) = 2
    /\ DefaultItems(fs, cli_last.root, "vaults") = {RecordNamePool[2]}
    /\ DefaultNodeRows(fs, cli_last.root) = {RecordNamePool[2]}


\* ------------------------------------------------------------------ C31
\* C31: delete_at is best-effort and total. Whatever subset of its removals
\* fails on whatever tree the directory holds, every category directory, the
\* defaults directory and the config file whose own removal does not fail is
\* gone, with all below it. delete, which runs it on the default directory,
\* returns success whatever fails; reset, which runs it before re-creating the
\* directories, returns success too and leaves nothing below a directory
\* whose removal did not fail.
C31_DeleteAtIsBestEffort ==
    /\ [](\A failed \in SUBSET RemovalTargets :
            LET left == DeleteAt(fs, "home", failed)
            IN  \A q \in left : Len(q) > 1 /\ q[2] \in RemovalTargets => q[2] \in failed)
    /\ [][\A failed \in Failures :
            (cli_last'.op = "delete" /\ Delete(failed))
                => /\ cli_last'.status = "ok"
                   /\ \A t \in RemovalTargets \ failed :
                        Tree(fs', <<DefaultDir[1], t>>) = {}]_vars
    /\ [][\A failed \in Failures :
            (cli_last'.op = "reset" /\ Reset("home", failed))
                => /\ cli_last'.status = "ok"
                   /\ \A t \in RemovalTargets \ failed :
                        Tree(fs', <<"home", t>>) \subseteq {<<"home", t>>}]_vars

\* delete has returned success although a removal failed: a category
\* directory that held an item is still there, and the defaults directory and
\* the config file, which came after it, are gone
C31_Witness ==
    /\ cli_last.op = "delete"
    /\ cli_last.status = "ok"
    /\ cli_last.prior # {}
    /\ \E k \in 1..Len(StateDirs) :
            /\ <<"home", StateDirs[k]>> \in fs
            /\ \A j \in 1..Len(StateDirs) : j > k => <<"home", StateDirs[j]>> \notin fs
    /\ <<"home", "defaults">> \notin fs
    /\ <<"home", "config.json">> \notin fs


\* ------------------------------------------------------------------ C32
\* C32: once name_identity(id, n) has returned, get_identifier_by_name(n)
\* returns id and nothing else; a name that has no row returns none, and a
\* name gets a row only by a name_identity call for that name.
C32_NamedIsRetrievable ==
    /\ [][\A i \in Identifiers, n \in Names :
            NameIdentity(1, i, n)
                => /\ last'.status = "ok"
                   /\ GetIdentifierByName(n)' = {Some(i)}]_vars
    /\ [](\A n \in Names :
            (\A r \in named_identity : r.name # n) => GetIdentifierByName(n) = {None})
    /\ [][\A n \in Names :
            (/\ \A r \in named_identity : r.name # n
             /\ \E r \in named_identity' : r.name = n)
                => last'.op = "name_identity" /\ last'.name = n]_vars

\* name_identity has just returned, its name gives its identifier, and another
\* name has no row
C32_Witness ==
    /\ last.op = "name_identity"
    /\ last.status = "ok"
    /\ GetIdentifierByName(last.name) = {Some(last.identifier)}
    /\ \E n \in Names : GetIdentifierByName(n) = {None}

\* ------------------------------------------------------------------ C33
\* C33: when the registry holds one row, of id1, and set_as_default(id2)
\* returns for another identifier id2, get_default_identifier returns id1.
C33_UnnamedDefaultKeepsNamed ==
    [][\A id1, id2 \in Identifiers :
        (/\ id1 # id2
         /\ Cardinality(named_identity) = 1
         /\ \A r \in named_identity : r.identifier = id1
         /\ call[1].op = "set_as_default"
         /\ call[1].identifier = id2
         /\ SetAsDefaultQuery2(1))
            => GetDefaultIdentifier' = {Some(id1)}]_vars

\* ------------------------------------------------------------------ C35
\* C35: with no call in flight, get_default_identifier,
\* get_default_named_identity and get_default_identity_name each have one
\* result and describe the same row, or all return none; and
\* is_default_identity_by_name(n) returns true when get_default_identity_name
\* returns n, false otherwise.
C35_DefaultQueriesAgree ==
    InFlight = {} =>
        /\ \E o \in FetchOptional(DefaultRows) :
            /\ GetDefaultNamedIdentity = {o}
            /\ GetDefaultIdentifier = {IF o = None THEN None ELSE Some(o[1].identifier)}
            /\ GetDefaultIdentityName = {IF o = None THEN None ELSE Some(o[1].name)}
        /\ \A n \in Names :
            IsDefaultIdentityByName(n)
                = {[variant |-> "Ok", flag |-> GetDefaultIdentityName = {Some(n)}]}


\* ------------------------------------------------------------------ C34
\* C34: with as many connections in the pool as there are callers of
\* put_attribute_value, set_as_default and delete_identity, no state is reached
\* where every caller keeps one connection of the pool and waits for the pool
\* to grant it a second one.
C34_NoHoldAndWait ==
    ~(/\ FreeConnections = 0
      /\ \A p \in Procs : call[p].pc \in {"statement1", "statement2"})

====
